---- MODULE Spec2Model ----
(***************************************************************************)
(* The Project class of the web editor: the load-once lifecycle, the       *)
(* per-file side table of dirty flags and editor models, the flush done by *)
(* get(), the configuration of the shared TypeScript context, and emit().  *)
(*                                                                         *)
(* One JavaScript job (a synchronous call, or the continuation of an       *)
(* await) is one action.  Optional values (`undefined` or a value) are     *)
(* sets with at most one element.                                          *)
(***************************************************************************)
EXTENDS Integers, Sequences, FiniteSets, TLC

\* ------------------------------------------------------------------ bounds
\* Number of load() calls in flight at once.
MaxLoads == 2
\* Number of emit() calls in flight at once.
MaxEmits == 1
\* A compiler-context call that throws is among the first MaxFailAt calls of
\* a configurator run.
MaxFailAt == 2

\* ---------------------------------------------------------- optional values
Undefined == {}
Some(x) == {x}
The(s) == CHOOSE x \in s : TRUE

\* ------------------------------------------------------------------ errors
AlreadyLoadedError == "Project is already loaded."
NotLoadedError == "Project not loaded."
UnknownFileError == "File is not part of the project."
SyntaxError == "SyntaxError"
TransportError == "TransportError"
ContextError == "CompilerContextError"
WorkerError == "WorkerError"

\* ------------------------------------------- what the collaborators serve
\* The texts the bundle fetch collaborator serves, by locator.
TextA == "bundle A"
TextB == "bundle B"
TextBad == "<html>not json</html>"

Locators == {"a.json", "b.json", "bad.json"}

Served(filename) ==
    CASE filename = "a.json" -> TextA
      [] filename = "b.json" -> TextB
      [] OTHER -> TextBad

BundleA ==
    [files |-> << [name |-> "a.ts", text |-> "let x=1;", type |-> "TypeScript"],
                  [name |-> "readme.md", text |-> "hello", type |-> "Markdown"] >>,
     environmentFiles |->
               << [name |-> "lib.d.ts", text |-> "lib", type |-> "Lib"],
                  [name |-> "env.d.ts", text |-> "env", type |-> "Definition"] >>,
     tsconfig |-> [compilerOptions |->
                      Some([strictNullChecks |-> "true", target |-> "ES2015"])]]

BundleB ==
    [files |-> << [name |-> "a.ts", text |-> "let y=2;", type |-> "TypeScript"],
                  [name |-> "./index.html", text |-> "<p>", type |-> "HTML"],
                  [name |-> "types.d.ts", text |-> "declare", type |-> "Definition"] >>,
     environmentFiles |-> << >>,
     tsconfig |-> [compilerOptions |-> Undefined]]

\* JSON.parse of a served text: the parsed bundle, or a thrown SyntaxError.
JSONparse(text) ==
    CASE text = TextA -> [throws |-> FALSE, value |-> Some(BundleA)]
      [] text = TextB -> [throws |-> FALSE, value |-> Some(BundleB)]
      [] OTHER -> [throws |-> TRUE, value |-> Undefined]

\* The file names the callers ask about, and what the editing surface types.
FileNames == {"a.ts", "readme.md", "missing.ts"}
Contents == {"edited"}

\* ------------------------------------------------------------------- state
VARIABLES
    project,        \* Project._project: Undefined or Some(bundle)
    fileMap,        \* Project._fileMap: file identity -> ProjectFileData
    models,         \* the editor models created so far: handle -> model
    nextModel,      \* the number of the next model created for this bundle
    context,        \* the calls made on typescriptDefaults, in order
    loads,          \* the load() calls: where each one is
    emits,          \* the emit() calls: where each one is
    ret,            \* what the last job returned or threw
    resolved        \* whether the promise of a load() call has resolved

vars == << project, fileMap, models, nextModel, context, loads, emits, ret,
          resolved >>

\* The part of the state the synchronous methods of Project read and write.
Store == [project |-> project, fileMap |-> fileMap, models |-> models,
          nextModel |-> nextModel]

\* ---------------------------------------------------------------- helpers
RECURSIVE FilterSeq(_, _)
FilterSeq(s, keep) ==
    IF s = << >> THEN << >>
    ELSE (IF Head(s) \in keep THEN << Head(s) >> ELSE << >>)
         \o FilterSeq(Tail(s), keep)

\* @dojo/core/lang assign: the source's properties win.
assign(target, source) ==
    [k \in DOMAIN target \cup DOMAIN source |->
        IF k \in DOMAIN source THEN source[k] ELSE target[k]]

Pick(rec, keys) == [k \in (keys \cap DOMAIN rec) |-> rec[k]]

\* The identity of the i-th file object of the bundle parsed by load `id`.
FileKey(id, i) == << id, i >>

getLanguageFromType(type) ==
    CASE type \in {"Definition", "TypeScript", "Lib"} -> "typescript"
      [] type = "HTML" -> "html"
      [] type = "JavaScript" -> "javascript"
      [] type = "Markdown" -> "markdown"
      [] type = "CSS" -> "css"
      [] type = "JSON" -> "json"
      [] type = "PlainText" -> "plaintext"
      [] type = "XML" -> "xml"
      [] OTHER -> "unknown"

\* The identity of the n-th model created for the files of the bundle parsed
\* by load `id`: a model object of its own.
Handle(id, n) == << id, n >>

\* monaco.Uri.file(filename): the path is the file name, after a "/" when it
\* does not start with one.  Strings are strings: a sequence of characters.
UriFile(filename) ==
    [scheme |-> "file",
     path |-> IF Len(filename) > 0 /\ Head(filename) = "/"
              THEN filename ELSE "/" \o filename]

\* Variant: createMonacoModel creating the model empty.
createMonacoModel_Empty(file) ==
    [value |-> "",
     language |-> getLanguageFromType(file.type),
     uri |-> UriFile(file.name)]

\* monaco.editor.createModel(text, language, monaco.Uri.file(filename))
createMonacoModel(file) ==
    [value |-> file.text,
     language |-> getLanguageFromType(file.type),
     uri |-> UriFile(file.name)]

\* ------------------------------------------- the synchronous methods, pure
\* Each takes a store and returns the store after the call together with
\* what the call returned (val) or that it threw (err).

\* getFile: the index of the first file of that name, 0 when there is none.
findFile(s, filename) ==
    LET files == The(s.project).files
        hits == {i \in 1..Len(files) : files[i].name = filename}
    IN IF hits = {} THEN 0 ELSE CHOOSE i \in hits : \A j \in hits : i <= j

_getProjectFileData(s, i) ==
    LET key == FileKey(The(s.project).id, i)
    IN IF key \in DOMAIN s.fileMap THEN s
       ELSE [s EXCEPT !.fileMap =
                [k \in DOMAIN s.fileMap \cup {key} |->
                    IF k = key THEN [dirty |-> Undefined, model |-> Undefined]
                    ELSE s.fileMap[k]]]

FileData(s, i) == s.fileMap[FileKey(The(s.project).id, i)]

\* Variant: getFile without the not-loaded guard.
getFile_NoGuard(s, filename) ==
    IF s.project = Undefined THEN [err |-> Undefined, i |-> 0]
    ELSE [err |-> Undefined, i |-> findFile(s, filename)]

\* getFile: the index of the file found (0: undefined), or the throw.
getFile(s, filename) ==
    IF s.project = Undefined THEN [err |-> Some(NotLoadedError), i |-> 0]
    ELSE [err |-> Undefined, i |-> findFile(s, filename)]

\* Variant: getFileModel without the throw for a name that is not a project file.
getFileModel_NoCheck(s, filename) ==
    LET f == getFile(s, filename) IN
    IF f.err # Undefined THEN [s |-> s, err |-> f.err, val |-> << >>]
    ELSE IF f.i = 0 THEN [s |-> s, err |-> Undefined, val |-> << >>]
    ELSE LET s1 == _getProjectFileData(s, f.i)
             key == FileKey(The(s.project).id, f.i)
         IN IF s1.fileMap[key].model # Undefined
            THEN [s |-> s1, err |-> Undefined, val |-> The(s1.fileMap[key].model)]
            ELSE LET h == Handle(The(s.project).id, s1.nextModel) IN
                 [s |-> [s1 EXCEPT
                           !.fileMap[key].model = Some(h),
                           !.models = [m \in DOMAIN s1.models \cup {h} |->
                               IF m = h
                               THEN createMonacoModel(The(s.project).files[f.i])
                               ELSE s1.models[m]],
                           !.nextModel = s1.nextModel + 1],
                  err |-> Undefined, val |-> h]

getFileModel(s, filename) ==
    LET f == getFile(s, filename) IN
    IF f.err # Undefined THEN [s |-> s, err |-> f.err, val |-> << >>]
    ELSE IF f.i = 0 THEN [s |-> s, err |-> Some(UnknownFileError), val |-> << >>]
    ELSE LET s1 == _getProjectFileData(s, f.i)
             key == FileKey(The(s.project).id, f.i)
         IN IF s1.fileMap[key].model # Undefined
            THEN [s |-> s1, err |-> Undefined, val |-> The(s1.fileMap[key].model)]
            ELSE LET h == Handle(The(s.project).id, s1.nextModel) IN
                 [s |-> [s1 EXCEPT
                           !.fileMap[key].model = Some(h),
                           !.models = [m \in DOMAIN s1.models \cup {h} |->
                               IF m = h
                               THEN createMonacoModel(The(s.project).files[f.i])
                               ELSE s1.models[m]],
                           !.nextModel = s1.nextModel + 1],
                  err |-> Undefined, val |-> h]

isFileDirty(s, filename) ==
    LET f == getFile(s, filename) IN
    IF f.err # Undefined THEN [s |-> s, err |-> f.err, val |-> FALSE]
    ELSE IF f.i = 0 THEN [s |-> s, err |-> Undefined, val |-> FALSE]
    ELSE LET s1 == _getProjectFileData(s, f.i) IN
         [s |-> s1, err |-> Undefined, val |-> (TRUE \in FileData(s1, f.i).dirty)]

\* Variant: setFileDirty marking the file dirty whatever reset is.
setFileDirty_IgnoresReset(s, filename, reset) ==
    LET f == getFile(s, filename) IN
    IF f.err # Undefined THEN [s |-> s, err |-> f.err]
    ELSE IF f.i = 0 THEN [s |-> s, err |-> Some(UnknownFileError)]
    ELSE LET s1 == _getProjectFileData(s, f.i)
             key == FileKey(The(s.project).id, f.i)
         IN [s |-> [s1 EXCEPT !.fileMap[key].dirty = Some(TRUE)],
             err |-> Undefined]

\* Variant: setFileDirty with the sense of reset inverted.
setFileDirty_Inverted(s, filename, reset) ==
    LET f == getFile(s, filename) IN
    IF f.err # Undefined THEN [s |-> s, err |-> f.err]
    ELSE IF f.i = 0 THEN [s |-> s, err |-> Some(UnknownFileError)]
    ELSE LET s1 == _getProjectFileData(s, f.i)
             key == FileKey(The(s.project).id, f.i)
         IN [s |-> [s1 EXCEPT !.fileMap[key].dirty = Some(TRUE \in reset)],
             err |-> Undefined]

\* Variant: setFileDirty returning quietly for a name that is not a project file.
setFileDirty_IgnoresUnknown(s, filename, reset) ==
    LET f == getFile(s, filename) IN
    IF f.err # Undefined THEN [s |-> s, err |-> f.err]
    ELSE IF f.i = 0 THEN [s |-> s, err |-> Undefined]
    ELSE LET s1 == _getProjectFileData(s, f.i)
             key == FileKey(The(s.project).id, f.i)
         IN [s |-> [s1 EXCEPT !.fileMap[key].dirty = Some(TRUE \notin reset)],
             err |-> Undefined]

\* reset is Undefined (omitted), Some(TRUE) or Some(FALSE); dirty = !reset.
setFileDirty(s, filename, reset) ==
    LET f == getFile(s, filename) IN
    IF f.err # Undefined THEN [s |-> s, err |-> f.err]
    ELSE IF f.i = 0 THEN [s |-> s, err |-> Some(UnknownFileError)]
    ELSE LET s1 == _getProjectFileData(s, f.i)
             key == FileKey(The(s.project).id, f.i)
         IN [s |-> [s1 EXCEPT !.fileMap[key].dirty = Some(TRUE \notin reset)],
             err |-> Undefined]

\* Variant: the filter of _updateBundle keeping every file.
RECURSIVE DirtyFilter_KeepsAll(_, _, _)
DirtyFilter_KeepsAll(s, i, acc) ==
    IF i > Len(The(s.project).files) THEN [s |-> s, kept |-> acc]
    ELSE LET r == isFileDirty(s, The(s.project).files[i].name)
         IN DirtyFilter_KeepsAll(r.s, i + 1, Append(acc, i))

\* The filter of _updateBundle: isFileDirty on every file, in bundle order.
RECURSIVE DirtyFilter(_, _, _)
DirtyFilter(s, i, acc) ==
    IF i > Len(The(s.project).files) THEN [s |-> s, kept |-> acc]
    ELSE LET r == isFileDirty(s, The(s.project).files[i].name)
         IN DirtyFilter(r.s, i + 1, IF r.val THEN Append(acc, i) ELSE acc)

\* The forEach of _updateBundle over the files the filter kept.
RECURSIVE FlushEach(_, _)
FlushEach(s, kept) ==
    IF kept = << >> THEN s
    ELSE LET i == Head(kept)
             name == The(s.project).files[i].name
             m == getFileModel(s, name)
             bundle == The(m.s.project)
             s1 == [m.s EXCEPT !.project =
                      Some([bundle EXCEPT
                              !.files[i].text = m.s.models[m.val].value])]
             s2 == setFileDirty(s1, name, Some(TRUE)).s
         IN FlushEach(s2, Tail(kept))

\* Variant: _updateBundle leaving the bundle texts as they are.
_updateBundle_Skips(s) ==
    IF s.project = Undefined THEN s
    ELSE DirtyFilter(s, 1, << >>).s

_updateBundle(s) ==
    IF s.project = Undefined THEN s
    ELSE LET f == DirtyFilter(s, 1, << >>) IN FlushEach(f.s, f.kept)

\* Variant: getFiles returning every name whatever the kinds asked for.
getFiles_IgnoresTypes(s, types) ==
    IF s.project = Undefined
    THEN [err |-> Some(NotLoadedError), val |-> << >>]
    ELSE LET files == The(s.project).files
         IN [err |-> Undefined, val |-> [i \in 1..Len(files) |-> files[i].name]]

\* getFiles(...types): the names of the files of those kinds (of all the
\* files when no kind is given), in bundle order.
getFiles(s, types) ==
    IF s.project = Undefined
    THEN [err |-> Some(NotLoadedError), val |-> << >>]
    ELSE LET files == The(s.project).files
             keep == {f \in {files[i] : i \in 1..Len(files)} :
                         types = {} \/ f.type \in types}
             kept == FilterSeq(files, keep)
         IN [err |-> Undefined, val |-> [i \in 1..Len(kept) |-> kept[i].name]]

\* Variant: includes without the short-circuit on an absent project.
includes_NoGuard(s, filename) ==
    LET g == getFiles(s, {}) IN
    [err |-> g.err, val |-> \E i \in 1..Len(g.val) : g.val[i] = filename]

includes(s, filename) ==
    IF s.project = Undefined THEN [err |-> Undefined, val |-> FALSE]
    ELSE LET g == getFiles(s, {}) IN
         [err |-> g.err, val |-> \E i \in 1..Len(g.val) : g.val[i] = filename]

isLoaded(s) == s.project # Undefined

\* ------------------------------------------- the Environment Configurator
\* The option names _setTypeScriptEnvironment copies from tsconfig.json.
CopiedOptions == {"lib", "noImplicitAny", "noImplicitThis", "noImplicitReturns",
                  "noLib", "noUnusedLocals", "noUnusedParameters",
                  "strictNullChecks", "types"}

\* The options asserted for web editing.
AssertedOptions ==
    [allowNonTsExtensions |-> "true", target |-> "ES5", module |-> "UMD",
     moduleResolution |-> "NodeJs"]

\* The setCompilerOptions call of _setTypeScriptEnvironment.
_setTypeScriptEnvironment(s) ==
    LET declared == The(s.project).tsconfig.compilerOptions
        compilerOptions == IF declared = Undefined THEN << >> ELSE The(declared)
    IN << [fn |-> "setCompilerOptions",
           options |-> assign(Pick(compilerOptions, CopiedOptions), AssertedOptions)] >>

\* The addExtraLib calls of _setEnvironmentFiles, in order.
_setEnvironmentFiles(s) ==
    LET env == The(s.project).environmentFiles
    IN [i \in 1..Len(env) |->
          [fn |-> "addExtraLib", text |-> env[i].text,
           path |-> (IF env[i].type = "Lib" THEN "" ELSE "file:///")
                       \o env[i].name]]

\* The addExtraLib calls of _setProjectFiles, in order.
_setProjectFiles(s) ==
    LET files == The(s.project).files
        keep == {f \in {files[i] : i \in 1..Len(files)} :
                    f.type = "TypeScript" \/ f.type = "Definition"}
        kept == FilterSeq(files, keep)
    IN [i \in 1..Len(kept) |->
          [fn |-> "addExtraLib", text |-> kept[i].text, path |-> "file:///" \o kept[i].name]]

\* --------------------------------------------------------------- the jobs
\* What the last job returned or threw: of a call (op is the method's name)
\* or of the continuation that settles a load or an emit (loadSettled,
\* emitSettled; arg of emitSettled is how the call went: the order in which
\* the worker's answers came, and what the call started from).  A continuation that settles nothing leaves NoRet.
NoRet == [op |-> "-", arg |-> "-", err |-> Undefined, val |-> Undefined]
Ret(op, arg, err, val) == [op |-> op, arg |-> arg, err |-> err, val |-> val]

\* The event loop is idle: the job before has completed and its result has
\* been taken.
Idle == ret = NoRet

SetStore(s) ==
    /\ project' = s.project
    /\ fileMap' = s.fileMap
    /\ models' = s.models
    /\ nextModel' = s.nextModel

\* Where a load() call in flight is: at one of its awaits (request, text,
\* bundle).  A slot with no call in flight is idle; how a call settled is in
\* ret.
LoadAt(pc, filename) == [pc |-> pc, filename |-> filename]
LoadIdle == LoadAt("idle", "-")

\* Where an emit() call in flight is: at one of its awaits (worker, client,
\* output), with the uris it asked the worker about, the outputs so far and
\* the order in which the requests completed (done); and, for the record,
\* the contents the pass-through files had when emit() was called (called).
EmitAt(pc, uris, output) ==
    [pc |-> pc, uris |-> uris, output |-> output, done |-> << >>,
     called |-> << >>]
EmitIdle == EmitAt("idle", << >>, << >>)

Init ==
    /\ project = Undefined
    /\ fileMap = << >>
    /\ models = << >>
    /\ nextModel = 1
    /\ context = << >>
    /\ loads = [i \in 1..MaxLoads |-> LoadIdle]
    /\ emits = [i \in 1..MaxEmits |-> EmitIdle]
    /\ ret = NoRet
    /\ resolved = FALSE

\* Variant: load without the already-loaded guard.
load_NoGuard(i, filename) ==
    /\ Idle
    /\ loads[i].pc = "idle"
    /\ \A j \in 1..(i - 1) : loads[j].pc # "idle"
    /\ loads' = [loads EXCEPT ![i] = LoadAt("request", filename)]
    /\ ret' = Ret("load", filename, Undefined, Some("pending"))
    /\ UNCHANGED << project, fileMap, models, nextModel, context, emits, resolved >>

\* Variant: load whose guard also refuses while another load is in flight.
load_GuardsInFlight(i, filename) ==
    /\ Idle
    /\ loads[i].pc = "idle"
    /\ \A j \in 1..(i - 1) : loads[j].pc # "idle"
    /\ IF project # Undefined \/ \E j \in 1..MaxLoads : loads[j].pc # "idle"
       THEN /\ UNCHANGED loads
            /\ ret' = Ret("load", filename, Some(AlreadyLoadedError), Undefined)
       ELSE /\ loads' = [loads EXCEPT ![i] = LoadAt("request", filename)]
            /\ ret' = Ret("load", filename, Undefined, Some("pending"))
    /\ UNCHANGED << project, fileMap, models, nextModel, context, emits, resolved >>

\* load(filename), up to its first await: the guard, then the request is sent.
load(i, filename) ==
    /\ Idle
    /\ loads[i].pc = "idle"
    /\ \A j \in 1..(i - 1) : loads[j].pc # "idle"
    /\ IF project # Undefined
       THEN /\ UNCHANGED loads
            /\ ret' = Ret("load", filename, Some(AlreadyLoadedError), Undefined)
       ELSE /\ loads' = [loads EXCEPT ![i] = LoadAt("request", filename)]
            /\ ret' = Ret("load", filename, Undefined, Some("pending"))
    /\ UNCHANGED << project, fileMap, models, nextModel, context, emits, resolved >>

\* `await request(filename)` settles: a response, or a transport error that
\* rejects the load.
request(i, ok) ==
    /\ Idle
    /\ loads[i].pc = "request"
    /\ IF ok
       THEN /\ loads' = [loads EXCEPT ![i].pc = "text"]
            /\ ret' = NoRet
       ELSE /\ loads' = [loads EXCEPT ![i] = LoadIdle]
            /\ ret' = Ret("loadSettled", loads[i].filename, Some(TransportError), Undefined)
    /\ UNCHANGED << project, fileMap, models, nextModel, context, emits, resolved >>

StoredBundle(i, bundle) ==
    Some([id |-> i, files |-> bundle.files,
          environmentFiles |-> bundle.environmentFiles,
          tsconfig |-> bundle.tsconfig])

\* Variant: _loadBundle storing a bundle although the parse failed.
_loadBundle_StoresUnparsed(i, rejectText) ==
    /\ Idle
    /\ loads[i].pc = "text"
    /\ LET parsed == JSONparse(Served(loads[i].filename)) IN
       IF rejectText
       THEN /\ loads' = [loads EXCEPT ![i] = LoadIdle]
            /\ ret' = Ret("loadSettled", loads[i].filename, Some(TransportError), Undefined)
            /\ UNCHANGED << project, fileMap, models, nextModel >>
       ELSE
       /\ IF parsed.throws
          THEN /\ loads' = [loads EXCEPT ![i] = LoadIdle]
               /\ ret' = Ret("loadSettled", loads[i].filename, Some(SyntaxError), Undefined)
          ELSE /\ loads' = [loads EXCEPT ![i].pc = "bundle"]
               /\ ret' = NoRet
       /\ project' = StoredBundle(i,
             IF parsed.throws
             THEN [files |-> << >>, environmentFiles |-> << >>,
                   tsconfig |-> [compilerOptions |-> Undefined]]
             ELSE The(parsed.value))
       /\ fileMap' = << >>
       /\ models' = models
       /\ nextModel' = 1
    /\ UNCHANGED << context, emits, resolved >>

\* `await response.text()` settles: rejected, which rejects the load, or with
\* the text, which _loadBundle parses and stores as the bundle (a text that
\* does not parse rejects the load too).  The file objects of a bundle stored before are unreachable from
\* then on: the WeakMap holds their entries no longer.  The editor models
\* created for them are never disposed of: they stay with the editor.
_loadBundle(i, rejectText) ==
    /\ Idle
    /\ loads[i].pc = "text"
    /\ LET parsed == JSONparse(Served(loads[i].filename)) IN
       IF rejectText
       THEN /\ loads' = [loads EXCEPT ![i] = LoadIdle]
            /\ ret' = Ret("loadSettled", loads[i].filename, Some(TransportError), Undefined)
            /\ UNCHANGED << project, fileMap, models, nextModel >>
       ELSE IF parsed.throws
       THEN /\ loads' = [loads EXCEPT ![i] = LoadIdle]
            /\ ret' = Ret("loadSettled", loads[i].filename, Some(SyntaxError), Undefined)
            /\ UNCHANGED << project, fileMap, models, nextModel >>
       ELSE /\ loads' = [loads EXCEPT ![i].pc = "bundle"]
            /\ ret' = NoRet
            /\ project' = StoredBundle(i, The(parsed.value))
            /\ fileMap' = << >>
            /\ models' = models
            /\ nextModel' = 1
    /\ UNCHANGED << context, emits, resolved >>

\* The calls of the Environment Configurator, in the order load makes them.
ConfiguratorCalls(s) ==
    _setTypeScriptEnvironment(s) \o _setEnvironmentFiles(s) \o _setProjectFiles(s)

\* load resumes after `await this._loadBundle(filename)` and runs the
\* configurator in one job.  Call number failAt of the compiler context
\* throws (0: none does), which ends the job and rejects the load.
configure(i, failAt) ==
    /\ Idle
    /\ loads[i].pc = "bundle"
    /\ LET calls == ConfiguratorCalls(Store) IN
       /\ failAt <= Len(calls)
       /\ context' = context \o
             (IF failAt = 0 THEN calls ELSE SubSeq(calls, 1, failAt - 1))
    /\ loads' = [loads EXCEPT ![i] = LoadIdle]
    /\ ret' = Ret("loadSettled", loads[i].filename,
                  IF failAt = 0 THEN Undefined ELSE Some(ContextError),
                  IF failAt = 0 THEN Some("resolved") ELSE Undefined)
    /\ resolved' = (resolved \/ failAt = 0)
    /\ UNCHANGED << project, fileMap, models, nextModel, emits >>

\* get()
CallGet ==
    /\ Idle
    /\ SetStore(_updateBundle(Store))
    /\ ret' = Ret("get", "-", Undefined, project')
    /\ UNCHANGED << context, loads, emits, resolved >>

\* getFile(filename)
CallGetFile(filename) ==
    /\ Idle
    /\ ret' = LET f == getFile(Store, filename) IN
              Ret("getFile", filename, f.err,
                  IF f.i = 0 THEN Undefined ELSE Some(The(project).files[f.i]))
    /\ UNCHANGED << project, fileMap, models, nextModel, context, loads, emits, resolved >>

\* getFileModel(filename)
CallGetFileModel(filename) ==
    LET r == getFileModel(Store, filename) IN
    /\ Idle
    /\ SetStore(r.s)
    /\ ret' = Ret("getFileModel", filename, r.err,
                  IF r.err = Undefined THEN Some(r.val) ELSE Undefined)
    /\ UNCHANGED << context, loads, emits, resolved >>

\* getFiles(...types)
CallGetFiles(types) ==
    LET r == getFiles(Store, types) IN
    /\ Idle
    /\ ret' = Ret("getFiles", types, r.err,
                  IF r.err = Undefined THEN Some(r.val) ELSE Undefined)
    /\ UNCHANGED << project, fileMap, models, nextModel, context, loads, emits, resolved >>

\* includes(filename)
CallIncludes(filename) ==
    /\ Idle
    /\ ret' = LET r == includes(Store, filename) IN
              Ret("includes", filename, r.err,
                  IF r.err = Undefined THEN Some(r.val) ELSE Undefined)
    /\ UNCHANGED << project, fileMap, models, nextModel, context, loads, emits, resolved >>

\* isFileDirty(filename)
CallIsFileDirty(filename) ==
    LET r == isFileDirty(Store, filename) IN
    /\ Idle
    /\ SetStore(r.s)
    /\ ret' = Ret("isFileDirty", filename, r.err,
                  IF r.err = Undefined THEN Some(r.val) ELSE Undefined)
    /\ UNCHANGED << context, loads, emits, resolved >>

\* isLoaded()
CallIsLoaded ==
    /\ Idle
    /\ ret' = Ret("isLoaded", "-", Undefined, Some(isLoaded(Store)))
    /\ UNCHANGED << project, fileMap, models, nextModel, context, loads, emits, resolved >>

\* setFileDirty(filename, reset)
CallSetFileDirty(filename, reset) ==
    LET r == setFileDirty(Store, filename, reset) IN
    /\ Idle
    /\ SetStore(r.s)
    /\ ret' = Ret("setFileDirty", << filename, reset >>, r.err, Undefined)
    /\ UNCHANGED << context, loads, emits, resolved >>

\* The editing surface changes the content of a model it holds.
edit(h, v) ==
    /\ Idle
    /\ h \in DOMAIN models
    /\ models[h].value # v
    /\ models' = [models EXCEPT ![h].value = v]
    /\ ret' = NoRet
    /\ UNCHANGED << project, fileMap, nextModel, context, loads, emits, resolved >>

\* ------------------------------------------------------------ emit
IsCompiled(file) == file.type = "Definition" \/ file.type = "TypeScript"

\* uri.toString() and uri.fsPath of a model's uri.
UriToString(uri) == "file://" \o uri.path
FsPath(uri) == uri.path

\* String.prototype.replace with a pattern that is not global: the first
\* occurrence of the pattern, wherever in the string it starts, and only it
\* (the patterns emit uses match themselves, character by character).
RECURSIVE ReplaceFirst(_, _, _)
ReplaceFirst(str, pattern, by) ==
    IF Len(str) < Len(pattern) THEN str
    ELSE IF SubSeq(str, 1, Len(pattern)) = pattern
    THEN by \o SubSeq(str, Len(pattern) + 1, Len(str))
    ELSE SubSeq(str, 1, 1) \o ReplaceFirst(Tail(str), pattern, by)

\* What the worker may answer to getEmitOutput(file): the emit was skipped,
\* with or without output files written before it was given up, or was done.
EmitOutputs(file) ==
    { [emitSkipped |-> TRUE, outputFiles |-> << >>],
      [emitSkipped |-> TRUE,
       outputFiles |-> << [name |-> file \o ".js", text |-> "partial"] >>],
      [emitSkipped |-> FALSE,
       outputFiles |-> << [name |-> file \o ".js", text |-> "compiled"] >>] }

\* The map of emit over the compiled files: getFileModel(name).uri of each,
\* in bundle order.
RECURSIVE ModelUris(_, _, _)
ModelUris(s, names, acc) ==
    IF names = << >> THEN [s |-> s, uris |-> acc]
    ELSE LET m == getFileModel(s, Head(names))
         IN ModelUris(m.s, Tail(names), Append(acc, m.s.models[m.val].uri))

\* The names of the files of the bundle that are (compiled = TRUE) or are not
\* compiled, in bundle order.
FileNamesWhere(s, compiled) ==
    LET files == The(s.project).files
        keep == {f \in {files[i] : i \in 1..Len(files)} : IsCompiled(f) = compiled}
        kept == FilterSeq(files, keep)
    IN [i \in 1..Len(kept) |-> kept[i].name]

\* Variant: the reduce of emit taking the files of skipped outputs too.
RECURSIVE Emitted_KeepsSkipped(_)
Emitted_KeepsSkipped(output) ==
    IF output = << >> THEN << >>
    ELSE Head(output).outputFiles \o Emitted_KeepsSkipped(Tail(output))

\* The reduce of emit over the outputs: the files of those not skipped.
RECURSIVE Emitted(_)
Emitted(output) ==
    IF output = << >> THEN << >>
    ELSE (IF Head(output).emitSkipped THEN << >> ELSE Head(output).outputFiles)
         \o Emitted(Tail(output))

\* Variant: the pass-through part taken from the texts stored in the bundle.
RECURSIVE PassThrough_BundleText(_, _, _)
PassThrough_BundleText(s, names, acc) ==
    IF names = << >> THEN [s |-> s, files |-> acc]
    ELSE LET m == getFileModel(s, Head(names))
             model == m.s.models[m.val]
         IN PassThrough_BundleText(m.s, Tail(names),
                Append(acc, [name |-> ReplaceFirst(FsPath(model.uri), "/./", "/"),
                             text |-> The(s.project).files[findFile(s, Head(names))].text]))

\* The pass-through part of emit's result: one entry per model, in order.
RECURSIVE PassThrough(_, _, _)
PassThrough(s, names, acc) ==
    IF names = << >> THEN [s |-> s, files |-> acc]
    ELSE LET m == getFileModel(s, Head(names))
             model == m.s.models[m.val]
         IN PassThrough(m.s, Tail(names),
                Append(acc, [name |-> ReplaceFirst(FsPath(model.uri), "/./", "/"),
                             text |-> model.value]))

\* The contents of the pass-through files as emit reads them, in bundle
\* order: for each name, getFileModel(name).getValue(), the content of the
\* model of the first file of that name (a model made for the reading starts
\* with that file's text).
CalledWith(s) ==
    LET others == PassThrough(s, FileNamesWhere(s, FALSE), << >>)
    IN [k \in 1..Len(others.files) |-> others.files[k].text]

\* How an emit() call went, reported when it settles.
Settled(i) == [done |-> emits[i].done, called |-> emits[i].called]

\* emit(), up to its first await: the guard, then the models of the compiled
\* files.
emit(i) ==
    /\ Idle
    /\ emits[i].pc = "idle"
    /\ \A j \in 1..(i - 1) : emits[j].pc # "idle"
    /\ IF project = Undefined
       THEN /\ ret' = Ret("emit", "-", Some(NotLoadedError), Undefined)
            /\ UNCHANGED << project, fileMap, models, nextModel, emits >>
       ELSE LET r == ModelUris(Store, FileNamesWhere(Store, TRUE), << >>) IN
            /\ SetStore(r.s)
            /\ emits' = [emits EXCEPT ![i] =
                  [EmitAt("worker", r.uris, << >>) EXCEPT !.called = CalledWith(r.s)]]
            /\ ret' = Ret("emit", "-", Undefined, Some("pending"))
    /\ UNCHANGED << context, loads, resolved >>

\* Variant: a rejected await of emit resolving the emit with the outputs that
\* came in before it.
EmitRejects_Partial(i) ==
    /\ emits' = [emits EXCEPT ![i] = EmitIdle]
    /\ ret' = Ret("emitSettled", Settled(i), Undefined,
                  Some(Emitted([k \in 1..Len(emits[i].done) |->
                                  The(emits[i].output[emits[i].done[k]])])))

\* A rejected await of emit rejects the emit.
EmitRejects(i) ==
    /\ emits' = [emits EXCEPT ![i] = EmitIdle]
    /\ ret' = Ret("emitSettled", Settled(i), Some(WorkerError), Undefined)

\* `await monaco.languages.typescript.getTypeScriptWorker()` settles.
emitWorker(i, ok) ==
    /\ Idle
    /\ emits[i].pc = "worker"
    /\ IF ok
       THEN /\ emits' = [emits EXCEPT ![i].pc = "client"]
            /\ ret' = NoRet
       ELSE EmitRejects(i)
    /\ UNCHANGED << project, fileMap, models, nextModel, context, loads, resolved >>

\* `await worker(...typescriptFileUris)` settles; with the client, one
\* getEmitOutput request per uri is sent.
emitClient(i, ok) ==
    /\ Idle
    /\ emits[i].pc = "client"
    /\ IF ok
       THEN /\ emits' = [emits EXCEPT ![i].pc = "output",
                            ![i].output = [k \in 1..Len(emits[i].uris) |-> Undefined]]
            /\ ret' = NoRet
       ELSE EmitRejects(i)
    /\ UNCHANGED << project, fileMap, models, nextModel, context, loads, resolved >>

\* Request k of the Promise.all settles: with an output, or rejected, which
\* rejects the Promise.all.
emitOutput(i, k, ok) ==
    /\ Idle
    /\ emits[i].pc = "output"
    /\ k \in 1..Len(emits[i].uris)
    /\ emits[i].output[k] = Undefined
    /\ IF ok
       THEN /\ \E out \in EmitOutputs(UriToString(emits[i].uris[k])) :
                  emits' = [emits EXCEPT ![i].output[k] = Some(out),
                                         ![i].done = Append(@, k)]
            /\ ret' = NoRet
       ELSE EmitRejects(i)
    /\ UNCHANGED << project, fileMap, models, nextModel, context, loads, resolved >>

\* Variant: emit putting the outputs together in the order they came in.
emitFinish_CompletionOrder(i) ==
    /\ Idle
    /\ emits[i].pc = "output"
    /\ \A k \in 1..Len(emits[i].uris) : emits[i].output[k] # Undefined
    /\ LET output == [k \in 1..Len(emits[i].uris) |->
                         The(emits[i].output[emits[i].done[k]])]
           emitted == Emitted(output)
           conformed == [k \in 1..Len(emitted) |->
                           [name |-> ReplaceFirst(emitted[k].name, "file://", ""),
                            text |-> emitted[k].text]]
           others == PassThrough(Store, FileNamesWhere(Store, FALSE), << >>)
       IN /\ SetStore(others.s)
          /\ ret' = Ret("emitSettled", Settled(i), Undefined,
                        Some(conformed \o others.files))
    /\ emits' = [emits EXCEPT ![i] = EmitIdle]
    /\ UNCHANGED << context, loads, resolved >>

\* Variant: emit returning the pass-through contents it was called with.
emitFinish_CallTime(i) ==
    /\ Idle
    /\ emits[i].pc = "output"
    /\ \A k \in 1..Len(emits[i].uris) : emits[i].output[k] # Undefined
    /\ LET output == [k \in 1..Len(emits[i].uris) |-> The(emits[i].output[k])]
           emitted == Emitted(output)
           conformed == [k \in 1..Len(emitted) |->
                           [name |-> ReplaceFirst(emitted[k].name, "file://", ""),
                            text |-> emitted[k].text]]
           others == PassThrough(Store, FileNamesWhere(Store, FALSE), << >>)
       IN /\ SetStore(others.s)
          /\ ret' = Ret("emitSettled", Settled(i), Undefined,
                        Some(conformed \o
                             [k \in 1..Len(others.files) |->
                                [name |-> others.files[k].name,
                                 text |-> emits[i].called[k]]]))
    /\ emits' = [emits EXCEPT ![i] = EmitIdle]
    /\ UNCHANGED << context, loads, resolved >>

\* emit resumes after the Promise.all: the result is put together.
emitFinish(i) ==
    /\ Idle
    /\ emits[i].pc = "output"
    /\ \A k \in 1..Len(emits[i].uris) : emits[i].output[k] # Undefined
    /\ LET output == [k \in 1..Len(emits[i].uris) |-> The(emits[i].output[k])]
           emitted == Emitted(output)
           conformed == [k \in 1..Len(emitted) |->
                           [name |-> ReplaceFirst(emitted[k].name, "file://", ""),
                            text |-> emitted[k].text]]
           others == PassThrough(Store, FileNamesWhere(Store, FALSE), << >>)
       IN /\ SetStore(others.s)
          /\ ret' = Ret("emitSettled", Settled(i), Undefined,
                        Some(conformed \o others.files))
    /\ emits' = [emits EXCEPT ![i] = EmitIdle]
    /\ UNCHANGED << context, loads, resolved >>

\* The job ends: its result is taken and the event loop turns to the next job.
turn ==
    /\ ret # NoRet
    /\ ret' = NoRet
    /\ UNCHANGED << project, fileMap, models, nextModel, context, loads, emits, resolved >>

\* The kinds getFiles is asked for.
TypeFilters == {{}, {"Markdown", "Definition"}}

\* The compiled files of a bundle served are no more than its files.
MaxCompiled == Len(BundleB.files)

LoadSteps ==
    \/ \E i \in 1..MaxLoads, ok \in BOOLEAN : request(i, ok)
    \/ \E i \in 1..MaxLoads, rejectText \in BOOLEAN : _loadBundle(i, rejectText)

Calls ==
    \/ CallGet
    \/ \E filename \in FileNames : CallGetFile(filename)
    \/ \E filename \in FileNames : CallGetFileModel(filename)
    \/ \E types \in TypeFilters : CallGetFiles(types)
    \/ \E filename \in FileNames : CallIncludes(filename)
    \/ \E filename \in FileNames : CallIsFileDirty(filename)
    \/ CallIsLoaded
    \/ \E filename \in FileNames, reset \in {Undefined, Some(TRUE), Some(FALSE)} :
          CallSetFileDirty(filename, reset)
    \/ \E h \in DOMAIN models, v \in Contents : edit(h, v)
    \/ turn

EmitSteps ==
    \/ \E i \in 1..MaxEmits : emit(i)
    \/ \E i \in 1..MaxEmits, ok \in BOOLEAN : emitWorker(i, ok)
    \/ \E i \in 1..MaxEmits, ok \in BOOLEAN : emitClient(i, ok)
    \/ \E i \in 1..MaxEmits, k \in 1..MaxCompiled, ok \in BOOLEAN : emitOutput(i, k, ok)
    \/ \E i \in 1..MaxEmits : emitFinish(i)

NoLoadInFlight == \A j \in 1..MaxLoads : loads[j].pc = "idle"

\* The caller issues one load at a time; the compiler context may throw.
Next ==
    \/ \E i \in 1..MaxLoads, filename \in Locators :
          NoLoadInFlight /\ load(i, filename)
    \/ LoadSteps
    \/ \E i \in 1..MaxLoads, failAt \in 0..MaxFailAt : configure(i, failAt)
    \/ Calls
    \/ EmitSteps

Spec == Init /\ [][Next]_vars

\* The caller issues loads that overlap; emit is not called.
NextRace ==
    \/ \E i \in 1..MaxLoads, filename \in Locators : load(i, filename)
    \/ LoadSteps
    \/ \E i \in 1..MaxLoads : configure(i, 0)
    \/ Calls

SpecRace == Init /\ [][NextRace]_vars

\* ------------------------------------------------------------- the claims
\* The name a call was made with.
RetName(r) == IF r.op = "setFileDirty" THEN r.arg[1] ELSE r.arg

\* The dirty flag and the model recorded for file i of the stored bundle,
\* read without creating the entry.
DirtyIn(s, i) ==
    LET key == FileKey(The(s.project).id, i)
    IN key \in DOMAIN s.fileMap /\ TRUE \in s.fileMap[key].dirty

ModelIn(s, i) ==
    LET key == FileKey(The(s.project).id, i)
    IN IF key \in DOMAIN s.fileMap THEN s.fileMap[key].model ELSE Undefined

SetCompilerOptionsCalls ==
    {k \in 1..Len(context) : context[k].fn = "setCompilerOptions"}

\* C1: a load call on an instance whose project is loaded fails with the
\* already-loaded error and changes nothing: not the bundle, the files' texts,
\* the dirty flags, the models, or the compiler-context registrations.
C1_SecondLoadFails ==
    [][(project # Undefined /\ ret'.op = "load") =>
          /\ ret'.err = Some(AlreadyLoadedError)
          /\ Store' = Store
          /\ context' = context
          /\ loads' = loads
          /\ emits' = emits]_vars

C1_Witness ==
    /\ ret.op = "load"
    /\ ret.err = Some(AlreadyLoadedError)
    /\ \E i \in 1..Len(The(project).files) :
          /\ DirtyIn(Store, i)
          /\ ModelIn(Store, i) # Undefined
          /\ models[The(ModelIn(Store, i))].value = "edited"

\* C2: whatever the interleaving of load calls, setCompilerOptions is invoked
\* at most once.
C2_ConfiguratorRunsOnce == Cardinality(SetCompilerOptionsCalls) <= 1

\* C3: when a compiler-context call throws during the configurator, the load
\* rejects and the instance is left unloaded, with no bundle stored.
C3_ContextFailureRollsBack ==
    (ret.op = "loadSettled" /\ ret.err = Some(ContextError)) =>
        (~isLoaded(Store) /\ project = Undefined)

\* C4: when the bundle fetch fails or the fetched text does not parse, the
\* load fails, the instance stays unloaded with nothing registered in the
\* compiler context and nothing else changed, and the already-loaded guard of
\* a later load call passes.
C4_FetchOrParseFailure ==
    [][(ret'.op = "loadSettled"
        /\ ret'.err \in {Some(TransportError), Some(SyntaxError)}) =>
          /\ Store' = Store
          /\ context' = context
          /\ ~isLoaded(Store')
          /\ context' = << >>
          /\ emits' = emits]_vars

C4_Witness ==
    /\ ret.op = "loadSettled"
    /\ ret.err = Some(SyntaxError)
    /\ ret.arg = "bad.json"
    /\ ~isLoaded(Store)
    /\ \A j \in 1..MaxLoads : loads[j].pc = "idle"

\* C5: on a loaded project, for every file marked dirty when get() is called,
\* the file's text in the returned bundle equals the content of the file's
\* model, which get() does not change.
C5_FlushRoundTrip ==
    [][(project # Undefined /\ ret'.op = "get") =>
          \A i \in 1..Len(The(project).files) :
             DirtyIn(Store, i) =>
                /\ ret'.err = Undefined
                /\ ModelIn(Store', i) # Undefined
                /\ The(ret'.val).files[i].text
                      = models'[The(ModelIn(Store', i))].value
                /\ ModelIn(Store, i) # Undefined =>
                      /\ ModelIn(Store', i) = ModelIn(Store, i)
                      /\ models'[The(ModelIn(Store, i))].value
                            = models[The(ModelIn(Store, i))].value]_vars

C5_Witness ==
    /\ ret.op = "get"
    /\ ret.val # Undefined
    /\ \E i \in 1..Len(The(ret.val).files) :
          /\ The(ret.val).files[i].text = "edited"
          /\ models[The(ModelIn(Store, i))].value = "edited"

\* C6, as claimed: every file that isFileDirty reports dirty immediately
\* before get() is still reported dirty immediately after it.
C6_FlushKeepsDirty ==
    [][(project # Undefined /\ ret'.op = "get") =>
          \A i \in 1..Len(The(project).files) :
             isFileDirty(Store, The(project).files[i].name).val =>
                isFileDirty(Store', The(project).files[i].name).val]_vars

\* C6, amended: the flush clears the dirty flag: every file that isFileDirty
\* reports dirty immediately before get() is reported not dirty immediately
\* after it.
C6_FlushClearsDirty ==
    [][(project # Undefined /\ ret'.op = "get") =>
          \A i \in 1..Len(The(project).files) :
             isFileDirty(Store, The(project).files[i].name).val =>
                /\ isFileDirty(Store', The(project).files[i].name).err = Undefined
                /\ ~isFileDirty(Store', The(project).files[i].name).val]_vars

C6_Witness ==
    /\ ret.op = "get"
    /\ ret.val # Undefined
    /\ \E i \in 1..Len(The(project).files) :
          /\ The(project).files[i].text = "edited"
          /\ FileData(Store, i).dirty = Some(FALSE)

\* C7: emit, getFiles and getFile called with no project loaded, also while a
\* load is suspended, fail with the not-loaded error and leave the instance
\* unloaded, with no model and no metadata entry created.
C7_NotLoadedGuards ==
    [][(project = Undefined /\ ret'.op \in {"emit", "getFiles", "getFile"}) =>
          /\ ret'.err = Some(NotLoadedError)
          /\ ~isLoaded(Store')
          /\ DOMAIN fileMap' = {}
          /\ DOMAIN models' = {}
          /\ Store' = Store
          /\ emits' = emits]_vars

C7_Witness ==
    /\ ret.op = "emit"
    /\ ret.err = Some(NotLoadedError)
    /\ \E j \in 1..MaxLoads : loads[j].pc = "request"
    /\ ~isLoaded(Store)

\* C8: with no project loaded, get() returns the absent result and
\* includes(name) returns false, neither failing nor changing any state;
\* isLoaded() never fails, in any state.
C8_UnloadedQueries ==
    [][/\ (project = Undefined /\ ret'.op \in {"get", "includes"}) =>
             /\ ret'.err = Undefined
             /\ ret'.val = (IF ret'.op = "get" THEN Undefined ELSE Some(FALSE))
             /\ Store' = Store
             /\ UNCHANGED << context, loads, emits >>
       /\ ret'.op = "isLoaded" =>
             /\ ret'.err = Undefined
             /\ ret'.val = Some(project # Undefined)
             /\ Store' = Store]_vars

C8_Witness ==
    /\ ret.op = "includes"
    /\ ret.arg = "a.ts"
    /\ ret.val = Some(FALSE)
    /\ project = Undefined
    /\ \E j \in 1..MaxLoads : loads[j].pc = "text"

\* C9, as claimed: on a loaded project, isFileDirty and setFileDirty both fail
\* with the unknown-file error for a name that is no project file, and no
\* dirty flag changes.
C9_BothFailOnUnknown ==
    [][(project # Undefined /\ ret'.op \in {"isFileDirty", "setFileDirty"}
        /\ findFile(Store, RetName(ret')) = 0) =>
          /\ ret'.err = Some(UnknownFileError)
          /\ fileMap' = fileMap]_vars

\* C9, amended: on a loaded project, for a name that is no project file,
\* setFileDirty fails with the unknown-file error and isFileDirty returns
\* false without failing, and in both cases no dirty flag changes; for a known
\* file with no model yet both succeed, and create no model.
C9_UnknownAndUnbuffered ==
    [][(project # Undefined /\ ret'.op \in {"isFileDirty", "setFileDirty"}) =>
          LET i == findFile(Store, RetName(ret')) IN
          /\ (i = 0 /\ ret'.op = "setFileDirty") =>
                (ret'.err = Some(UnknownFileError) /\ Store' = Store)
          /\ (i = 0 /\ ret'.op = "isFileDirty") =>
                (ret'.err = Undefined /\ ret'.val = Some(FALSE) /\ Store' = Store)
          /\ (i # 0 /\ ModelIn(Store, i) = Undefined) =>
                /\ ret'.err = Undefined
                /\ ModelIn(Store', i) = Undefined
                /\ models' = models
                /\ ret'.op = "isFileDirty" => ret'.val = Some(DirtyIn(Store, i))]_vars

C9_Witness ==
    /\ ret.op = "setFileDirty"
    /\ ret.err = Some(UnknownFileError)
    /\ project # Undefined
    /\ findFile(Store, RetName(ret)) = 0
    /\ \E i \in 1..Len(The(project).files) : DirtyIn(Store, i)

\* C10: on a loaded project, getFileModel of a name that is not in the bundle
\* fails with the unknown-file error and creates no model and no metadata
\* entry, and getFile of that name returns the absent result without failing.
C10_UnknownFileModel ==
    [][(project # Undefined /\ ret'.op \in {"getFileModel", "getFile"}
        /\ findFile(Store, ret'.arg) = 0) =>
          /\ Store' = Store
          /\ ret'.val = Undefined
          /\ ret'.err = (IF ret'.op = "getFileModel"
                         THEN Some(UnknownFileError) ELSE Undefined)]_vars

C10_Witness ==
    /\ ret.op = "getFileModel"
    /\ ret.err = Some(UnknownFileError)
    /\ ret.arg = "readme.md"
    /\ project # Undefined
    /\ findFile(Store, "readme.md") = 0

\* C11: for a known file on a loaded project, setFileDirty(name, true) makes
\* isFileDirty(name) false and setFileDirty(name) with reset omitted or false
\* makes it true, and the dirty flags of the other files, every file's text
\* and every model are unchanged; a file's flag becomes set in no other way,
\* so a file never touched by setFileDirty reports not dirty.
C11_SetFileDirty ==
    [][/\ (project # Undefined /\ ret'.op = "setFileDirty"
            /\ findFile(Store, RetName(ret')) # 0) =>
              LET name == RetName(ret')
                  i == findFile(Store, name)
                  after == isFileDirty(Store', name)
              IN /\ ret'.err = Undefined
                 /\ after.err = Undefined
                 /\ after.val = (ret'.arg[2] # Some(TRUE))
                 /\ \A j \in 1..Len(The(project).files) :
                       j # i => DirtyIn(Store', j) = DirtyIn(Store, j)
                 /\ project' = project
                 /\ models' = models
       /\ project' # Undefined =>
              \A i \in 1..Len(The(project').files) :
                 (DirtyIn(Store', i) /\ (project # project' \/ ~DirtyIn(Store, i))) =>
                    /\ ret'.op = "setFileDirty"
                    /\ ret'.err = Undefined
                    /\ ret'.arg[2] # Some(TRUE)
                    /\ RetName(ret') = The(project').files[i].name]_vars

C11_Witness ==
    /\ ret.op = "setFileDirty"
    /\ ret.arg = << "a.ts", Some(TRUE) >>
    /\ ret.err = Undefined
    /\ FileData(Store, findFile(Store, "a.ts")).dirty = Some(FALSE)
    /\ LET j == findFile(Store, "readme.md") IN
          /\ j # 0
          /\ DirtyIn(Store, j)
          /\ ModelIn(Store, j) # Undefined
          /\ models[The(ModelIn(Store, j))].value = "edited"

\* The path of the uri a model was created with, and the path of a file name.
ModelName(model) == model.uri.path
UriPath(name) == "/" \o name

\* The names emit gives the output of a compiled file and the entry of a
\* pass-through file (the first "/./" of the path collapsed to "/").
CompiledEmitName(name) == "/" \o name \o ".js"
PassThroughEmitName(name) ==
    CASE name = "./index.html" -> "/index.html"
      [] OTHER -> "/" \o name

\* C12: once a model has been created for a file name, every later
\* getFileModel of that name returns that very model, whatever happened in
\* between, and at most one model is ever created per file name.
C12_BufferIdentityStable ==
    [][/\ ret'.op = "getFileModel" =>
             \A h \in DOMAIN models :
                ModelName(models[h]) = UriPath(ret'.arg) =>
                   (ret'.err = Undefined /\ ret'.val = Some(h))
       /\ \A h1, h2 \in DOMAIN models' :
             ModelName(models'[h1]) = ModelName(models'[h2]) => h1 = h2]_vars

\* The emit call that settles in this step, when one does.
SettlingEmit == CHOOSE i \in 1..MaxEmits : emits[i].pc # "idle" /\ emits'[i].pc = "idle"

\* The indices of the compiled (TRUE) or pass-through (FALSE) files of a
\* bundle, and the place of index i among the indices of a set.
FilesWhere(bundle, compiled) ==
    {i \in 1..Len(bundle.files) : IsCompiled(bundle.files[i]) = compiled}
RankIn(set, i) == Cardinality({j \in set : j <= i})
NthOf(set, k) == CHOOSE i \in set : RankIn(set, i) = k

\* C13: a successful emit() returns the outputs of the compiled files that
\* were not skipped, in the bundle order of the compiled files, followed by
\* one entry per pass-through file in bundle order, in whatever order the
\* worker's answers came in.
C13_EmitOrder ==
    [][(ret'.op = "emitSettled" /\ ret'.err = Undefined) =>
          LET output == emits[SettlingEmit].output
              compiled == FilesWhere(The(project), TRUE)
              others == FilesWhere(The(project), FALSE)
              kept == {k \in 1..Len(output) : ~The(output[k]).emitSkipped}
              val == The(ret'.val)
          IN /\ Len(output) = Cardinality(compiled)
             /\ Len(val) = Cardinality(kept) + Cardinality(others)
             /\ \A k \in kept :
                   val[RankIn(kept, k)].name =
                      CompiledEmitName(The(project).files[NthOf(compiled, k)].name)
             /\ \A i \in others :
                   val[Cardinality(kept) + RankIn(others, i)].name =
                      PassThroughEmitName(The(project).files[i].name)]_vars

C13_Witness ==
    /\ ret.op = "emitSettled"
    /\ ret.err = Undefined
    /\ ret.arg.done = << 2, 1 >>
    /\ [k \in 1..Len(The(ret.val)) |-> The(ret.val)[k].name] =
          << "/a.ts.js", "/types.d.ts.js", "/index.html" >>

\* The names of the entries of an emit result.
NamesOf(val) == {val[k].name : k \in 1..Len(val)}

\* C14: a compiled file for which the worker reports emitSkipped contributes
\* no entry to emit()'s result and causes no error; the outputs of the other
\* compiled files and an entry for every pass-through file are in the result.
C14_EmitSkipped ==
    [][\A i \in 1..MaxEmits :
          (/\ emits[i].pc = "output"
           /\ emits'[i].pc = "idle"
           /\ \A k \in 1..Len(emits[i].output) : emits[i].output[k] # Undefined
           /\ \E k \in 1..Len(emits[i].output) : The(emits[i].output[k]).emitSkipped) =>
              LET output == emits[i].output
                  compiled == FilesWhere(The(project), TRUE)
                  name(k) == The(project).files[NthOf(compiled, k)].name
              IN /\ ret'.op = "emitSettled"
                 /\ ret'.err = Undefined
                 /\ \A k \in 1..Len(output) :
                       (CompiledEmitName(name(k)) \in NamesOf(The(ret'.val)))
                          = ~The(output[k]).emitSkipped
                 /\ \A j \in FilesWhere(The(project), FALSE) :
                       PassThroughEmitName(The(project).files[j].name)
                          \in NamesOf(The(ret'.val))]_vars

C14_Witness ==
    /\ ret.op = "emitSettled"
    /\ ret.err = Undefined
    /\ Cardinality(FilesWhere(The(project), TRUE)) = 2
    /\ [k \in 1..Len(The(ret.val)) |-> The(ret.val)[k].name] =
          << "/types.d.ts.js", "/index.html" >>

\* C15: for every pass-through file a successful emit() returns exactly one
\* entry, whose text is the current content of the file's model and not the
\* text stored in the bundle, whether or not the file is marked dirty or was
\* flushed; for a file never edited that is the bundle's text.
C15_PassThroughText ==
    [][(ret'.op = "emitSettled" /\ ret'.err = Undefined) =>
          \A j \in FilesWhere(The(project), FALSE) :
             LET file == The(project).files[j]
                 val == The(ret'.val)
                 entries == {k \in 1..Len(val) :
                                val[k].name = PassThroughEmitName(file.name)}
                 text == val[CHOOSE k \in entries : TRUE].text
             IN /\ Cardinality(entries) = 1
                /\ text = models'[The(ModelIn(Store', j))].value
                /\ ModelIn(Store, j) # Undefined =>
                      text = models[The(ModelIn(Store, j))].value
                /\ text \notin Contents => text = file.text]_vars

C15_Witness ==
    /\ ret.op = "emitSettled"
    /\ ret.err = Undefined
    /\ LET j == findFile(Store, "readme.md") IN
          /\ j # 0
          /\ The(project).files[j].text = "hello"
          /\ ~DirtyIn(Store, j)
          /\ \E k \in 1..Len(The(ret.val)) :
                The(ret.val)[k] = [name |-> "/readme.md", text |-> "edited"]

\* C16: when the acquisition of the worker session rejects, or one of the
\* per-file emit requests does, emit() fails as a whole: it settles with the
\* error and delivers no result, neither the outputs that had come in nor
\* any pass-through entry.  An emit delivers a result only when every request
\* was answered.
C16_EmitFailsWhole ==
    [][\A i \in 1..MaxEmits :
          (emits[i].pc # "idle" /\ emits'[i].pc = "idle") =>
             /\ ret'.op = "emitSettled"
             /\ ret'.err # Undefined => ret'.val = Undefined
             /\ ret'.err = Undefined =>
                   /\ emits[i].pc = "output"
                   /\ \A k \in 1..Len(emits[i].uris) : emits[i].output[k] # Undefined
             /\ (\/ emits[i].pc # "output"
                 \/ \E k \in 1..Len(emits[i].uris) : emits[i].output[k] = Undefined) =>
                   (ret'.err = Some(WorkerError) /\ ret'.val = Undefined)]_vars

C16_Witness ==
    /\ ret.op = "emitSettled"
    /\ ret.err = Some(WorkerError)
    /\ ret.val = Undefined
    /\ ret.arg.done = << 2 >>
    /\ \A i \in 1..MaxEmits : emits[i].pc = "idle"

\* C17: on a loaded project, after any sequence of operations, getFiles()
\* returns exactly the names of the bundle's files in bundle order, and
\* getFiles(k1..kn) the names of the files of those kinds, in the same
\* relative order.
C17_GetFiles ==
    [][(project # Undefined /\ ret'.op = "getFiles") =>
          LET files == The(project).files
              types == ret'.arg
              wanted == {i \in 1..Len(files) : types = {} \/ files[i].type \in types}
              val == The(ret'.val)
          IN /\ ret'.err = Undefined
             /\ Len(val) = Cardinality(wanted)
             /\ \A i \in wanted : val[RankIn(wanted, i)] = files[i].name
             /\ types = {} => val = [i \in 1..Len(files) |-> files[i].name]
             /\ \E b \in {BundleA, BundleB} :
                   /\ Len(b.files) = Len(files)
                   /\ \A i \in 1..Len(files) :
                         /\ files[i].name = b.files[i].name
                         /\ files[i].type = b.files[i].type]_vars

C17_Witness ==
    /\ ret.op = "getFiles"
    /\ ret.arg = {"Markdown", "Definition"}
    /\ ret.val = Some(<< "readme.md" >>)
    /\ The(project).files[1].text = "edited"
    /\ DirtyIn(Store, 2)

\* C18: load calls issued on an unloaded instance before a bundle is stored
\* all pass the already-loaded guard, also while another load is in flight;
\* every one whose bundle parses stores it over whatever was stored, so the
\* bundle left is the one that came in last, and every one runs the
\* Environment Configurator.
C18_OverlappingLoads ==
    [][/\ (ret'.op = "load" /\ project = Undefined) =>
             /\ ret'.err = Undefined
             /\ \E i \in 1..MaxLoads :
                   loads[i].pc = "idle" /\ loads'[i] = LoadAt("request", ret'.arg)
       /\ \A i \in 1..MaxLoads :
             /\ (loads[i].pc = "text" /\ loads'[i].pc = "bundle") =>
                   /\ project' # Undefined
                   /\ The(project').files =
                         The(JSONparse(Served(loads[i].filename)).value).files
             /\ (loads[i].pc = "bundle" /\ loads'[i].pc = "idle") =>
                   /\ ret'.op = "loadSettled"
                   /\ ret'.arg = loads[i].filename
                   /\ ret'.err = Undefined
                   /\ Len(context') > Len(context)
                   /\ SubSeq(context', 1, Len(context)) = context
                   /\ context'[Len(context) + 1].fn = "setCompilerOptions"]_vars

C18_Witness ==
    /\ ret.op = "loadSettled"
    /\ ret.arg = "a.json"
    /\ ret.err = Undefined
    /\ \A i \in 1..MaxLoads : loads[i].pc = "idle"
    /\ Cardinality(SetCompilerOptionsCalls) = 2
    /\ The(project).files = BundleB.files

\* The compiler-context calls a step added.
Added == SubSeq(context', Len(context) + 1, Len(context'))

\* C19: within one load the configurator sets the compiler options, then
\* registers every environment file in bundle order, then every TypeScript
\* or Definition project file in bundle order, all after the bundle is
\* parsed and in the step that resolves the load; and no operation observes
\* isLoaded() true while a load has these steps still pending.
C19_ConfiguratorOrder ==
    [][/\ \A i \in 1..MaxLoads :
             (loads[i].pc = "bundle" /\ loads'[i].pc = "idle" /\ ret'.err = Undefined) =>
                LET env == The(project).environmentFiles
                    files == The(project).files
                    compiled == FilesWhere(The(project), TRUE)
                IN /\ Len(Added) = 1 + Len(env) + Cardinality(compiled)
                   /\ Added[1].fn = "setCompilerOptions"
                   /\ \A k \in 1..Len(env) :
                         /\ Added[1 + k].fn = "addExtraLib"
                         /\ Added[1 + k].text = env[k].text
                         /\ Added[1 + k].path
                               = (IF env[k].type = "Lib" THEN "" ELSE "file:///")
                                     \o env[k].name
                   /\ \A j \in compiled :
                         /\ Added[1 + Len(env) + RankIn(compiled, j)].fn = "addExtraLib"
                         /\ Added[1 + Len(env) + RankIn(compiled, j)].path
                               = "file:///" \o files[j].name
       /\ (context' # context) =>
             \E i \in 1..MaxLoads : loads[i].pc = "bundle" /\ loads'[i].pc = "idle"
       /\ (ret'.op = "isLoaded" /\ ret'.val = Some(TRUE)) =>
             \A i \in 1..MaxLoads : loads[i].pc # "bundle"]_vars

\* The names and kinds of the files of a bundle, in order.
FileSequence(bundle) ==
    [i \in 1..Len(bundle.files) |->
        [name |-> bundle.files[i].name, type |-> bundle.files[i].type]]

\* C20: once a load has succeeded, in every state afterwards isLoaded() is
\* true and the names, the order and the kinds of the project files are
\* those of the bundle loaded: no step unloads the project or adds, removes,
\* reorders or replaces a file.
C20_LoadedForGood ==
    [][resolved =>
          /\ isLoaded(Store)
          /\ isLoaded(Store')
          /\ FileSequence(The(project')) = FileSequence(The(project))]_vars

\* C21: the stored text of a file changes only through the flush of get(),
\* and only for a file marked dirty at that moment: get() leaves the text of
\* a file that is not marked dirty as it is, also when the content of the
\* file's model differs from it, and no other operation (getFileModel,
\* setFileDirty, isFileDirty, getFiles, includes, emit) changes a text.
C21_TextChangesOnlyByFlush ==
    [][(project # Undefined /\ project' # Undefined
        /\ The(project').id = The(project).id) =>
          /\ Len(The(project').files) = Len(The(project).files)
          /\ \A i \in 1..Len(The(project).files) :
                /\ (The(project').files[i].text # The(project).files[i].text) =>
                      /\ ret'.op = "get"
                      /\ DirtyIn(Store, i)
                      /\ The(project').files[i].text
                            = models'[The(ModelIn(Store', i))].value
                /\ (ret'.op = "get" /\ ~DirtyIn(Store, i)) =>
                      The(project').files[i].text = The(project).files[i].text]_vars

C21_Witness ==
    /\ ret.op = "get"
    /\ project # Undefined
    /\ LET i == findFile(Store, "a.ts")
           j == findFile(Store, "readme.md")
       IN /\ i # 0 /\ j # 0
          /\ The(project).files[i].text = "edited"
          /\ The(project).files[j].text = "hello"
          /\ ~DirtyIn(Store, j)
          /\ ModelIn(Store, j) # Undefined
          /\ models[The(ModelIn(Store, j))].value = "edited"

\* C22: a model is seeded, when it is created, with the stored text of its
\* file at that moment, whichever operation creates it (getFileModel, get or
\* emit); so a get() on a file marked dirty that had no model leaves the
\* file's text as it was.
C22_SeededWithText ==
    [][/\ \A h \in DOMAIN models' \ DOMAIN models :
             /\ ret'.op \in {"getFileModel", "get", "emit", "emitSettled"}
             /\ project # Undefined
             /\ \E i \in 1..Len(The(project).files) :
                   /\ ModelIn(Store, i) = Undefined
                   /\ ModelIn(Store', i) = Some(h)
                   /\ models'[h].value = The(project).files[i].text
                   /\ models'[h].value = The(project').files[i].text
                   /\ ModelName(models'[h]) = UriPath(The(project).files[i].name)
       /\ (ret'.op = "get" /\ project # Undefined) =>
             \A i \in 1..Len(The(project).files) :
                (DirtyIn(Store, i) /\ ModelIn(Store, i) = Undefined) =>
                   /\ ModelIn(Store', i) # Undefined
                   /\ The(project').files[i].text = The(project).files[i].text]_vars

C22_Witness ==
    /\ ret.op = "get"
    /\ project # Undefined
    /\ LET i == findFile(Store, "a.ts")
           j == findFile(Store, "readme.md")
       IN /\ i # 0 /\ j # 0
          /\ FileData(Store, i).dirty = Some(FALSE)
          /\ ModelIn(Store, i) = Some(Handle(The(project).id, 1))
          /\ models[The(ModelIn(Store, i))].value = "let x=1;"
          /\ The(project).files[i].text = "let x=1;"
          /\ ModelIn(Store, j) = Undefined
          /\ Cardinality(DOMAIN models) = 1

\* C23: the contents of the pass-through files are read when emit() resumes
\* after all the worker's answers, not when emit() was called: every
\* pass-through entry's text is the content, at that time, of the model its
\* name stands for (of the first file of that name), so an edit made while
\* emit() was suspended is in the result.
C23_PassThroughReadAtResume ==
    [][(ret'.op = "emitSettled" /\ ret'.err = Undefined) =>
          LET others == FilesWhere(The(project), FALSE)
              val == The(ret'.val)
              first == Len(val) - Cardinality(others)
          IN /\ Len(ret'.arg.called) = Cardinality(others)
             /\ \A j \in others :
                   LET f == findFile(Store, The(project).files[j].name) IN
                   val[first + RankIn(others, j)].text =
                      (IF ModelIn(Store, f) # Undefined
                       THEN models[The(ModelIn(Store, f))].value
                       ELSE The(project).files[f].text)]_vars

C23_Witness ==
    /\ ret.op = "emitSettled"
    /\ ret.err = Undefined
    /\ ret.arg.called = << "hello" >>
    /\ The(ret.val)[Len(The(ret.val))] =
          [name |-> "/readme.md", text |-> "edited"]
====
